---- MODULE Spec2Model ----
(***************************************************************************)
(* Model of src/json.rs: the selector-path resolver (select_one, select)   *)
(* and the tree builder (tree_items, recurse, from_object, from_array).    *)
(*                                                                         *)
(* Text (String keys, labels, textual forms) is a sequence of one-char     *)
(* strings, so that formatting is computed character by character.         *)
(***************************************************************************)
EXTENDS Integers, Sequences, FiniteSets, TLC

\* ------------------------------------------------------------------ bounds

\* A document has at most MaxNodes values (the root, and every member below).
MaxNodes == 4
\* A selector path handed to select has at most MaxPath steps.
MaxPath == 2
\* ArrayIndex steps handed to select range over 0..MaxIndex.
MaxIndex == 2

\* ------------------------------------------------- serde_json::Value (l.1)

Null == [kind |-> "Null"]
Bool(b) == [kind |-> "Bool", b |-> b]
Number(n) == [kind |-> "Number", n |-> n]
String(s) == [kind |-> "String", s |-> s]
\* Array(vec): elems is the Vec<Value>, positions 1..Len standing for 0..len-1.
Array(elems) == [kind |-> "Array", elems |-> elems]
\* Object(map): entries is the map in iteration order, a sequence of
\* <<key, value>> pairs whose keys are pairwise distinct.
Object(entries) == [kind |-> "Object", entries |-> entries]

\* ------------------------------------------- crate::identifier::Selector

SelNone == [tag |-> "None"]
ObjectKey(key) == [tag |-> "ObjectKey", key |-> key]
ArrayIndex(index) == [tag |-> "ArrayIndex", index |-> index]

\* ----------------------------------------------------------- Option<&Value>

NotFound == [some |-> FALSE]
Some(v) == [some |-> TRUE, v |-> v]

\* ------------------------------------------------------------ text forms

Digits == <<"0", "1", "2", "3", "4", "5", "6", "7", "8", "9">>

RECURSIVE NatToText(_)
NatToText(n) ==
    IF n < 10 THEN <<Digits[n + 1]>>
    ELSE NatToText(n \div 10) \o <<Digits[(n % 10) + 1]>>

\* Display of an integer: a minus sign for a negative one, then the digits.
IntToText(n) == IF n < 0 THEN <<"-">> \o NatToText(-n) ELSE NatToText(n)

\* serde_json's string escaping, for the characters of the model's strings.
EscapeChar(c) ==
    CASE c = "\"" -> <<"\\", "\"">>
      [] c = "\\" -> <<"\\", "\\">>
      [] c = "\n" -> <<"\\", "n">>
      [] OTHER -> <<c>>

RECURSIVE EscapeText(_)
EscapeText(s) ==
    IF s = <<>> THEN <<>> ELSE EscapeChar(Head(s)) \o EscapeText(Tail(s))

\* Value::to_string() (Display: compact JSON) of a scalar value.
to_string(value) ==
    CASE value.kind = "Null" -> <<"n", "u", "l", "l">>
      [] value.kind = "Bool" ->
            IF value.b THEN <<"t", "r", "u", "e">> ELSE <<"f", "a", "l", "s", "e">>
      [] value.kind = "Number" -> IntToText(value.n)
      [] value.kind = "String" -> <<"\"">> \o EscapeText(value.s) \o <<"\"">>

\* Selector's Display: the key text, the decimal index, nothing for None.
SelectorToText(key) ==
    CASE key.tag = "ObjectKey" -> key.key
      [] key.tag = "ArrayIndex" -> IntToText(key.index)
      [] key.tag = "None" -> <<>>

\* ----------------------------------------------------------------- select

\* Map::get(key): the value of the entry whose key is `key`, if there is one.
RECURSIVE MapGet(_, _)
MapGet(entries, key) ==
    IF entries = <<>> THEN NotFound
    ELSE IF Head(entries)[1] = key THEN Some(Head(entries)[2])
    ELSE MapGet(Tail(entries), key)

\* SliceGet with the index taken as counted from 1.
SliceGet_one_based(array, index) ==
    IF index >= 1 /\ index <= Len(array) THEN Some(array[index]) ELSE NotFound

\* slice::get(index), index counted from 0.
SliceGet(array, index) ==
    IF index < Len(array) THEN Some(array[index + 1]) ELSE NotFound

\* select_one with the None step resolving to the value itself.
select_one_none_is_self(root, selector) ==
    CASE root.kind = "Object" /\ selector.tag = "ObjectKey" ->
            MapGet(root.entries, selector.key)
      [] root.kind = "Array" /\ selector.tag = "ArrayIndex" ->
            SliceGet(root.elems, selector.index)
      [] selector.tag = "None" -> Some(root)
      [] OTHER -> NotFound

select_one(root, selector) ==
    CASE root.kind = "Object" /\ selector.tag = "ObjectKey" ->
            MapGet(root.entries, selector.key)
      [] root.kind = "Array" /\ selector.tag = "ArrayIndex" ->
            SliceGet(root.elems, selector.index)
      [] OTHER -> NotFound

RECURSIVE select_loop(_, _, _), select_loop_skip(_, _, _)

\* select_loop with a failing step skipped instead of ending the walk.
select_loop_skip(current, selector, i) ==
    IF i > Len(selector) THEN Some(current)
    ELSE LET next == select_one(current, selector[i])
         IN  IF ~next.some THEN select_loop_skip(current, selector, i + 1)
             ELSE select_loop_skip(next.v, selector, i + 1)

\* The for loop of select from its i-th step on, `current` being the value
\* reached so far; the ? operator returns None at the first failing step.
select_loop(current, selector, i) ==
    IF i > Len(selector) THEN Some(current)
    ELSE LET next == select_one(current, selector[i])
         IN  IF ~next.some THEN NotFound
             ELSE select_loop(next.v, selector, i + 1)

select(root, selector) == select_loop(root, selector, 1)

\* -------------------------------------------------------- crate::TreeItem

\* TreeItem::new_leaf(identifier, text): an item without children.
new_leaf(identifier, text) ==
    [identifier |-> identifier, text |-> text, children |-> <<>>]

Ok(item) == [ok |-> TRUE, item |-> item]
Err == [ok |-> FALSE]

\* TreeItem::new(identifier, text, children): an error when two of the
\* children carry the same identifier, the item otherwise.
new(identifier, text, children) ==
    IF \E i, j \in 1..Len(children) :
           i # j /\ children[i].identifier = children[j].identifier
    THEN Err
    ELSE Ok([identifier |-> identifier, text |-> text, children |-> children])

\* What a call ends in: a returned value, or a panic.
Returned(x) == [panic |-> FALSE, ret |-> x]
Panicked == [panic |-> TRUE]

\* Result::unwrap().
unwrap(r) == IF r.ok THEN Returned(r.item) ELSE Panicked

\* Iterator::collect() of the items a map closure built, in order: a panic
\* of any call of the closure is a panic of the whole.
collect(built) ==
    IF \E i \in 1..Len(built) : built[i].panic THEN Panicked
    ELSE Returned([i \in 1..Len(built) |-> built[i].ret])

\* ------------------------------------------------------------- tree_items

RECURSIVE recurse(_, _), from_object(_), from_array(_)

\* recurse with an empty container formatted as a leaf.
recurse_empty_as_leaf(key, value) ==
    CASE value.kind = "Object" /\ value.entries = <<>> ->
            Returned(new_leaf(key, SelectorToText(key) \o <<":", " ", "{", "}">>))
      [] value.kind = "Array" /\ value.elems = <<>> ->
            Returned(new_leaf(key, SelectorToText(key) \o <<":", " ", "[", "]">>))
      [] value.kind = "Object" ->
            LET children == from_object(value.entries)
            IN  IF children.panic THEN Panicked
                ELSE unwrap(new(key, SelectorToText(key), children.ret))
      [] value.kind = "Array" ->
            LET children == from_array(value.elems)
            IN  IF children.panic THEN Panicked
                ELSE unwrap(new(key, SelectorToText(key), children.ret))
      [] OTHER ->
            Returned(new_leaf(key, SelectorToText(key) \o <<":", " ">> \o to_string(value)))

\* recurse with the leaf label formatted without its separator.
recurse_no_separator(key, value) ==
    CASE value.kind = "Object" ->
            LET children == from_object(value.entries)
            IN  IF children.panic THEN Panicked
                ELSE unwrap(new(key, SelectorToText(key), children.ret))
      [] value.kind = "Array" ->
            LET children == from_array(value.elems)
            IN  IF children.panic THEN Panicked
                ELSE unwrap(new(key, SelectorToText(key), children.ret))
      [] OTHER ->
            Returned(new_leaf(key, SelectorToText(key) \o to_string(value)))

recurse(key, value) ==
    CASE value.kind = "Object" ->
            LET text == SelectorToText(key)
                children == from_object(value.entries)
            IN  IF children.panic THEN Panicked
                ELSE unwrap(new(key, text, children.ret))
      [] value.kind = "Array" ->
            LET text == SelectorToText(key)
                children == from_array(value.elems)
            IN  IF children.panic THEN Panicked
                ELSE unwrap(new(key, text, children.ret))
      [] OTHER ->
            LET text == SelectorToText(key) \o <<":", " ">> \o to_string(value)
            IN  Returned(new_leaf(key, text))

\* from_object with the members addressed by their position.
from_object_by_index(object) ==
    collect([i \in 1..Len(object) |-> recurse(ArrayIndex(i - 1), object[i][2])])

from_object(object) ==
    collect([i \in 1..Len(object) |->
                recurse(ObjectKey(object[i][1]), object[i][2])])

\* from_array with the index counted from 1.
from_array_one_based(array) ==
    collect([i \in 1..Len(array) |-> recurse(ArrayIndex(i), array[i])])

\* from_array with every element addressed by the index 0.
from_array_index_zero(array) ==
    collect([i \in 1..Len(array) |-> recurse(ArrayIndex(0), array[i])])

from_array(array) ==
    collect([i \in 1..Len(array) |-> recurse(ArrayIndex(i - 1), array[i])])

\* tree_items with a node standing for the root, whatever the root is.
tree_items_root_node(root) ==
    LET node == recurse(SelNone, root)
    IN  IF node.panic THEN Panicked ELSE Returned(<<node.ret>>)

\* tree_items with the scalar root labelled the way recurse labels a leaf.
tree_items_leaf_format(root) ==
    CASE root.kind = "Object" -> from_object(root.entries)
      [] root.kind = "Array" -> from_array(root.elems)
      [] OTHER -> LET node == recurse(SelNone, root)
                  IN  Returned(<<node.ret>>)

tree_items(root) ==
    CASE root.kind = "Object" -> from_object(root.entries)
      [] root.kind = "Array" -> from_array(root.elems)
      [] OTHER -> Returned(<<new_leaf(SelNone, to_string(root))>>)

\* ------------------------------------------------------------ the inputs

\* The scalar values documents are made of.
ScalarValues ==
    {Null, Bool(TRUE), Number(-12), String(<<"a", "\"">>)}

\* The keys objects are made of.
Keys == {<<"a">>, <<"b">>}

\* The sequences of n pairwise distinct keys: an object's keys in
\* iteration order.
KeySeqs(n) ==
    {ks \in [1..n -> Keys] : \A i, j \in 1..n : i # j => ks[i] # ks[j]}

\* The values of exactly n nodes, and the sequences of values of n nodes in all.
RECURSIVE ValuesOfSize(_), SeqsOfSize(_)

ValuesOfSize(n) ==
    (IF n = 1 THEN ScalarValues ELSE {})
    \cup {Array(s) : s \in SeqsOfSize(n - 1)}
    \cup UNION {{Object([i \in 1..Len(s) |-> <<ks[i], s[i]>>]) :
                    ks \in KeySeqs(Len(s))} : s \in SeqsOfSize(n - 1)}

SeqsOfSize(n) ==
    IF n = 0 THEN {<<>>}
    ELSE UNION {{<<v>> \o rest : v \in ValuesOfSize(j), rest \in SeqsOfSize(n - j)} :
                   j \in 1..n}

Documents == UNION {ValuesOfSize(n) : n \in 1..MaxNodes}

Selectors ==
    {SelNone} \cup {ObjectKey(k) : k \in Keys}
              \cup {ArrayIndex(i) : i \in 0..MaxIndex}

Paths == UNION {[1..n -> Selectors] : n \in 0..MaxPath}

\* ------------------------------------------------------------- the machine

VARIABLES root, pc, selector, result, items

vars == <<root, pc, selector, result, items>>

Init ==
    /\ root \in Documents
    /\ pc = "idle"
    /\ selector = <<>>
    /\ result = NotFound
    /\ items = Returned(<<>>)

\* A call select_one(&root, &step), as the unit tests make it.
SelectOne ==
    /\ pc = "idle"
    /\ \E step \in Selectors :
          /\ selector' = <<step>>
          /\ result' = select_one(root, step)
    /\ pc' = "selected_one"
    /\ UNCHANGED <<root, items>>

\* A call select(&root, &path).
Select ==
    /\ pc = "idle"
    /\ \E path \in Paths :
          /\ selector' = path
          /\ result' = select(root, path)
    /\ pc' = "selected"
    /\ UNCHANGED <<root, items>>

\* A call tree_items(&root).
TreeItems ==
    /\ pc = "idle"
    /\ items' = tree_items(root)
    /\ pc' = "built"
    /\ UNCHANGED <<root, selector, result>>

Next == SelectOne \/ Select \/ TreeItems

Spec == Init /\ [][Next]_vars

\* ------------------------------------------------- what the claims speak of

Built == pc = "built"

\* The members of a value in iteration order, each with the selector that
\* addresses it in its parent: none for a scalar.
Members(v) ==
    CASE v.kind = "Array" ->
            [j \in 1..Len(v.elems) |-> <<ArrayIndex(j - 1), v.elems[j]>>]
      [] v.kind = "Object" ->
            [j \in 1..Len(v.entries) |-> <<ObjectKey(v.entries[j][1]), v.entries[j][2]>>]
      [] OTHER -> <<>>

\* The places below a value: the non-empty sequences of member positions.
RECURSIVE PlacesBelow(_)
PlacesBelow(v) ==
    UNION {{<<j>>} \cup {<<j>> \o p : p \in PlacesBelow(Members(v)[j][2])} :
              j \in 1..Len(Members(v))}

Front(s) == SubSeq(s, 1, Len(s) - 1)

\* The value at a place, and the selector that addresses it in its parent.
RECURSIVE ValueAt(_, _)
ValueAt(v, place) ==
    IF place = <<>> THEN v ELSE ValueAt(Members(v)[Head(place)][2], Tail(place))

SelectorAt(v, place) == Members(ValueAt(v, Front(place)))[place[Len(place)]][1]

\* Whether a node collection has a node at a place; the node; and the
\* selectors of the nodes on the way down to it.
RECURSIVE HasNode(_, _)
HasNode(nodes, place) ==
    /\ Head(place) \in 1..Len(nodes)
    /\ Len(place) = 1 \/ HasNode(nodes[Head(place)].children, Tail(place))

RECURSIVE NodeAt(_, _)
NodeAt(nodes, place) ==
    IF Len(place) = 1 THEN nodes[Head(place)]
    ELSE NodeAt(nodes[Head(place)].children, Tail(place))

RECURSIVE PathTo(_, _)
PathTo(nodes, place) ==
    IF place = <<>> THEN <<>>
    ELSE <<nodes[Head(place)].identifier>>
            \o PathTo(nodes[Head(place)].children, Tail(place))

\* The places of the nodes of a node collection.
RECURSIVE NodePlaces(_)
NodePlaces(nodes) ==
    UNION {{<<j>>} \cup {<<j>> \o p : p \in NodePlaces(nodes[j].children)} :
              j \in 1..Len(nodes)}

\* The sibling groups of a node collection: itself, and every child list.
SiblingGroups(nodes) ==
    {nodes} \cup {NodeAt(nodes, p).children : p \in NodePlaces(nodes)}

IsContainer(v) == v.kind \in {"Array", "Object"}

EmptyContainer(v) == v = Array(<<>>) \/ v = Object(<<>>)

\* ----------------------------------------------------------------- claims

\* C1: select(root, path) is the value reached by applying select_one step by
\* step from root in path order: the root for the empty path, the value after
\* the last step when every step resolves, and not-found from the first
\* failing step on, whatever steps follow it.
C1_SelectIsStepwise ==
    pc = "selected" =>
        LET n == Len(selector)
            reach[j \in 0..n] ==
                IF j = 0 THEN Some(root)
                ELSE IF reach[j - 1].some
                     THEN select_one(reach[j - 1].v, selector[j])
                     ELSE NotFound
        IN  /\ n = 0 => result = Some(root)
            /\ (\A j \in 0..n : reach[j].some) => result = reach[n]
            /\ (\E j \in 0..n : ~reach[j].some) => result = NotFound

\* A two-step path resolved to a grandchild of the root.
C1_Witness ==
    /\ pc = "selected"
    /\ Len(selector) = 2
    /\ result.some
    /\ select_one(root, selector[1]).some
    /\ result = select_one(select_one(root, selector[1]).v, selector[2])

\* C2: on a matching container, select_one returns the addressed member
\* exactly when it exists: the element at position i of an array when
\* i < length, the value mapped to k in an object when k is one of its keys,
\* not-found otherwise.
C2_SelectOneMember ==
    pc = "selected_one" =>
        LET step == selector[1]
        IN  /\ (root.kind = "Array" /\ step.tag = "ArrayIndex") =>
                   IF step.index < Len(root.elems)
                   THEN result = Some(root.elems[step.index + 1])
                   ELSE result = NotFound
            /\ (root.kind = "Object" /\ step.tag = "ObjectKey") =>
                   IF \E j \in 1..Len(root.entries) : root.entries[j][1] = step.key
                   THEN \E j \in 1..Len(root.entries) :
                           /\ root.entries[j][1] = step.key
                           /\ result = Some(root.entries[j][2])
                   ELSE result = NotFound

\* The second element of a two-element array was selected.
C2_Witness ==
    /\ pc = "selected_one"
    /\ root.kind = "Array"
    /\ Len(root.elems) = 2
    /\ selector = <<ArrayIndex(1)>>
    /\ result = Some(root.elems[2])
    /\ root.elems[1] # root.elems[2]

\* C3: select_one returns not-found for every (value, step) pair that is
\* neither (Object, ObjectKey) nor (Array, ArrayIndex), and select returns
\* not-found for every path with a None step at any position.
C3_MismatchNotFound ==
    /\ pc = "selected_one" =>
          LET step == selector[1]
          IN  ~ \/ root.kind = "Object" /\ step.tag = "ObjectKey"
                \/ root.kind = "Array" /\ step.tag = "ArrayIndex"
              => result = NotFound
    /\ pc = "selected" =>
          ((\E j \in 1..Len(selector) : selector[j] = SelNone)
              => result = NotFound)

\* A path whose first step resolves and whose second step is None.
C3_Witness ==
    /\ pc = "selected"
    /\ Len(selector) = 2
    /\ select_one(root, selector[1]).some
    /\ selector[2] = SelNone
    /\ result = NotFound

\* C4: for an object root of n members, tree_items returns n top-level nodes,
\* the j-th addressed by ObjectKey of the j-th key in iteration order; for an
\* array root of length n, n nodes addressed ArrayIndex(0..n-1) in order.
C4_TopLevelNodes ==
    Built =>
        /\ root.kind = "Object" =>
              /\ ~items.panic
              /\ Len(items.ret) = Len(root.entries)
              /\ \A j \in 1..Len(root.entries) :
                    items.ret[j].identifier = ObjectKey(root.entries[j][1])
        /\ root.kind = "Array" =>
              /\ ~items.panic
              /\ Len(items.ret) = Len(root.elems)
              /\ \A j \in 1..Len(root.elems) :
                    items.ret[j].identifier = ArrayIndex(j - 1)

\* The tree of an array of two or more elements was built.
C4_Witness ==
    /\ Built
    /\ root.kind = "Array"
    /\ Len(root.elems) >= 2
    /\ ~items.panic
    /\ Len(items.ret) = Len(root.elems)

\* C5: tree_items of an empty object and of an empty array is the empty node
\* collection.
C5_EmptyRoot ==
    (Built /\ EmptyContainer(root)) => items = Returned(<<>>)

\* The tree of the empty object was built.
C5_Witness == Built /\ root = Object(<<>>) /\ ~items.panic

\* C6: for a scalar root, tree_items returns exactly one node: a leaf
\* addressed by Selector::None whose label is the scalar's textual form, with
\* no selector prefix and no separator.
C6_ScalarRoot ==
    (Built /\ ~IsContainer(root)) =>
        /\ ~items.panic
        /\ Len(items.ret) = 1
        /\ items.ret[1].identifier = SelNone
        /\ items.ret[1].children = <<>>
        /\ items.ret[1].text = to_string(root)

\* The tree of a string root was built; its label is the quoted string.
C6_Witness ==
    /\ Built
    /\ root.kind = "String"
    /\ ~items.panic
    /\ Head(items.ret[1].text) = "\""

\* C7: below the root, a member whose value is an empty object or array has
\* exactly one node in its parent's child list: at the member's position,
\* carrying the member's selector, labelled with the selector's display text
\* alone, without children.
C7_NestedEmptyContainer ==
    (Built /\ IsContainer(root)) =>
        /\ ~items.panic
        /\ \A place \in PlacesBelow(root) :
              EmptyContainer(ValueAt(root, place)) =>
                 /\ HasNode(items.ret, place)
                 /\ LET node == NodeAt(items.ret, place)
                        siblings == IF Len(place) = 1 THEN items.ret
                                    ELSE NodeAt(items.ret, Front(place)).children
                    IN  /\ node.identifier = SelectorAt(root, place)
                        /\ node.text = SelectorToText(SelectorAt(root, place))
                        /\ node.children = <<>>
                        /\ Len(siblings) = Len(Members(ValueAt(root, Front(place))))
                        /\ \A j \in 1..Len(siblings) :
                              siblings[j].identifier = node.identifier
                                 => j = place[Len(place)]

\* The tree of a document with an empty container two levels down was built.
C7_Witness ==
    /\ Built
    /\ ~items.panic
    /\ \E place \in PlacesBelow(root) :
          /\ Len(place) = 2
          /\ EmptyContainer(ValueAt(root, place))
          /\ HasNode(items.ret, place)
          /\ NodeAt(items.ret, place).children = <<>>

\* C8: a node built below the root from a (selector, value) pair: when value
\* is an Object or Array, its label is the selector's display text and its
\* children are the nodes of the value's members in iteration order;
\* otherwise it has no children and its label is the selector's display text,
\* then ": ", then the value's textual form.
C8_NodeShape ==
    (Built /\ IsContainer(root)) =>
        /\ ~items.panic
        /\ \A place \in PlacesBelow(root) :
              /\ HasNode(items.ret, place)
              /\ LET node == NodeAt(items.ret, place)
                     key == SelectorAt(root, place)
                     value == ValueAt(root, place)
                 IN  IF IsContainer(value)
                     THEN /\ node.text = SelectorToText(key)
                          /\ Len(node.children) = Len(Members(value))
                          /\ \A j \in 1..Len(node.children) :
                                node.children[j].identifier = Members(value)[j][1]
                     ELSE /\ node.children = <<>>
                          /\ node.text =
                                SelectorToText(key) \o <<":", " ">> \o to_string(value)

\* The tree of a document with a container of two members below the root,
\* was built: its node has two children, both leaves.
C8_Witness ==
    /\ Built
    /\ ~items.panic
    /\ \E place \in PlacesBelow(root) :
          /\ Len(Members(ValueAt(root, place))) = 2
          /\ HasNode(items.ret, place)
          /\ Len(NodeAt(items.ret, place).children) = 2
          /\ \A j \in 1..2 : NodeAt(items.ret, place).children[j].children = <<>>

\* C9: tree_items never fails: in every sibling group at any depth the
\* selectors are pairwise distinct, so TreeItem::new never returns an error
\* and the unwrap in recurse never panics.
C9_NeverPanics ==
    Built =>
        /\ ~items.panic
        /\ \A group \in SiblingGroups(items.ret) :
              \A i, j \in 1..Len(group) :
                 i # j => group[i].identifier # group[j].identifier

\* TreeItem::new was handed a child list of two nodes and returned the item.
C9_Witness ==
    /\ Built
    /\ ~items.panic
    /\ \E p \in NodePlaces(items.ret) : Len(NodeAt(items.ret, p).children) >= 2

\* C10: for a container root and every node of tree_items(root), the
\* selectors on the way from the top-level node down to the node, handed to
\* select, resolve to the sub-value the node was built from; distinct nodes
\* have distinct selector paths.
C10_RoundTrip ==
    (Built /\ IsContainer(root)) =>
        /\ ~items.panic
        /\ NodePlaces(items.ret) = PlacesBelow(root)
        /\ \A place \in NodePlaces(items.ret) :
              select(root, PathTo(items.ret, place)) = Some(ValueAt(root, place))
        /\ \A p, q \in NodePlaces(items.ret) :
              p # q => PathTo(items.ret, p) # PathTo(items.ret, q)

\* The tree of a document three levels deep was built, and its deepest node's
\* path resolves.
C10_Witness ==
    /\ Built
    /\ ~items.panic
    /\ \E place \in NodePlaces(items.ret) :
          /\ Len(place) >= 2
          /\ select(root, PathTo(items.ret, place)).some

====
